---- MODULE Spec2Model ----
(***************************************************************************)
(* Admission and batched-durability core of the ingest API                 *)
(* (src/src/index.ts): the bounded Record Queue `pending`, the Dead-Letter *)
(* Queue `deadLetters`, the two timer-driven flushes, the admission path   *)
(* of handleRequest and the shutdown sequence.                             *)
(*                                                                         *)
(* The program runs on one cooperative thread.  Every action below is the  *)
(* code between two suspension points (`await`): the body read             *)
(* `await req.text()`, the two batch inserts `await sql`...``, and the     *)
(* awaits of shutdown().                                                   *)
(*                                                                         *)
(* A string is a sequence of segments [t |-> text, n |-> length]; its      *)
(* length is the sum of the segment lengths and slice(0, k) cuts the       *)
(* segment that crosses position k.                                        *)
(***************************************************************************)
EXTENDS Integers, Sequences, FiniteSets, TLC

\* ---------------------------------------------------------------- configuration
\* batchSize, maxQueueSize and maxDeadQueueSize are read once at startup from the
\* environment (index.ts:17-21): the configurations explored, small values of each.
Config(b, q, d) == [batchSize |-> b, maxQueueSize |-> q, maxDeadQueueSize |-> d]

Configs == {Config(2, 2, 1), Config(1, 2, 2)}

\* Configurations whose queues fill with few requests: with one slot in each queue
\* the third of three admissions finds both at capacity.
TightConfigs == {Config(1, 1, 1), Config(2, 2, 1)}

\* The slice(0, 1000) limit on a dead letter's error (index.ts:286, 309).
ErrLimit == 1000

\* ---------------------------------------------------------------- bounds
\* Admissions ever started.
MaxRequests == 3
\* Store writes that fail.
MaxDbErrors == 3
\* The clock's last reading (it starts at 1).
MaxClock == 2

VARIABLES
    batchSize,          \* index.ts:17
    maxQueueSize,       \* index.ts:19
    maxDeadQueueSize,   \* index.ts:21
    pending,            \* RequestRecord[]            (index.ts:35)
    deadLetters,        \* DeadLetterRecord[]         (index.ts:36)
    flushing,           \* index.ts:37
    deadFlushing,       \* index.ts:38
    totalReceived,      \* index.ts:40
    totalAccepted,      \* index.ts:41
    totalRejected,      \* index.ts:42
    totalDeadLetters,   \* index.ts:43
    totalDbErrors,      \* index.ts:44
    lastFlushAt,        \* index.ts:45, 0 is null
    lastDeadFlushAt,    \* index.ts:46, 0 is null
    lastFlushError,     \* index.ts:47
    lastDeadFlushError, \* index.ts:48
    reading,            \* handleRequest invocations suspended at `await req.text()`
    flushWrites,        \* `insert into requests` statements awaiting the store
    deadWrites,         \* `insert into dead_letters` statements awaiting the store
    requests,           \* rows of table requests, in insertion order
    dead_letters,       \* rows of table dead_letters, in insertion order
    latencyHistogram,   \* index.ts:50, cell i + 1 here is latencyHistogram[i] there
    latencySumMs,       \* index.ts:51
    latencyCount,       \* index.ts:52
    dropLog,            \* console.error overflow lines, with the record each one lost
    responses,          \* the status each ended admission answered its caller with
    now,                \* Date.now()
    shutdownPc,         \* position of shutdown()
    acceptedBeforeShutdown, \* trace ids accepted into pending before shutdown() was called
    lastCall            \* the flush a timer invoked in the last step, if any

config == <<batchSize, maxQueueSize, maxDeadQueueSize>>

\* The Latency Recorder.
latency == <<latencyHistogram, latencySumMs, latencyCount>>

vars == <<config, pending, deadLetters, flushing, deadFlushing, totalReceived, totalAccepted,
          totalRejected, totalDeadLetters, totalDbErrors, lastFlushAt, lastDeadFlushAt,
          lastFlushError, lastDeadFlushError, reading, flushWrites, deadWrites,
          requests, dead_letters, dropLog, responses, now, shutdownPc, latency,
          acceptedBeforeShutdown, lastCall>>

\* The state health and metrics report: queues, flags, counters, timestamps, errors.
progVars == <<pending, deadLetters, flushing, deadFlushing, totalReceived,
              totalAccepted, totalRejected, totalDeadLetters, totalDbErrors,
              lastFlushAt, lastDeadFlushAt, lastFlushError, lastDeadFlushError>>

\* ---------------------------------------------------------------- strings
Lit(text, len) == <<[t |-> text, n |-> len]>>

RECURSIVE StrLen(_)
StrLen(s) == IF s = <<>> THEN 0 ELSE Head(s).n + StrLen(Tail(s))

\* s.slice(0, k)
RECURSIVE Slice(_, _)
Slice(s, k) ==
    IF s = <<>> \/ k <= 0 THEN <<>>
    ELSE IF Head(s).n <= k THEN <<Head(s)>> \o Slice(Tail(s), k - Head(s).n)
    ELSE <<[t |-> Head(s).t, n |-> k]>>

StartsWith(s, prefix) == Slice(s, StrLen(prefix)) = prefix

Null == Lit("null", 0)
QueueOverflow == Lit("queue_overflow", 14)
BodyReadFailed == Lit("body_read_failed: ", 18)
InsertFailed == Lit("insert_failed: ", 15)
DeadLetterInsertFailed == Lit("; dead_letter_insert_failed: ", 29)

\* formatError(error) of a rejected store write.
DbErrors == {Lit("connection refused", 18)}
\* A store message longer than the error limit.
LongDbErrors == {Lit("value too long ...", 1200)}
\* formatError(error) of a failed body read.
BodyErrors == {Lit("socket closed", 13)}

\* ---------------------------------------------------------------- records
RequestRecord(traceId, payload) == [trace_id |-> traceId, payload |-> payload]

DeadLetterRecord(record, error) ==
    [trace_id |-> record.trace_id, payload |-> record.payload, error |-> error]

Min(a, b) == IF a <= b THEN a ELSE b

Range(s) == {s[i] : i \in 1..Len(s)}

TraceIds(s) == {s[i].trace_id : i \in 1..Len(s)}

Running == shutdownPc # "exited"

\* ---------------------------------------------------------------- latency recorder
\* const latencyBucketsMs = [1, 2, 5, ..., 10000]
latencyBucketsMs == <<1, 2, 5, 10, 20, 50, 100, 200, 500, 1000, 2000, 5000, 10000>>

\* performance.now() - start of the admissions of the queue specifications, in ms.
Elapsed == {1}

\* The elapsed times explored for the recorder: around the first bounds, on and
\* over the last one, and far over it.
Latencies == {0, 1, 2, 3, 5, 1000, 10000, 10001, 50000}

\* Mutant: the bound is compared with `<`, a value on a bound going one bucket up.
findIndexStrict(valueMs) ==
    IF \E i \in 1..Len(latencyBucketsMs) : valueMs < latencyBucketsMs[i]
    THEN (CHOOSE i \in 1..Len(latencyBucketsMs) :
             /\ valueMs < latencyBucketsMs[i]
             /\ \A j \in 1..(i - 1) : ~(valueMs < latencyBucketsMs[j])) - 1
    ELSE -1

\* latencyBucketsMs.findIndex((limit) => valueMs <= limit): the 0-based index of the
\* first bound that holds the value, or -1.
findIndex(valueMs) ==
    IF \E i \in 1..Len(latencyBucketsMs) : valueMs <= latencyBucketsMs[i]
    THEN (CHOOSE i \in 1..Len(latencyBucketsMs) :
             /\ valueMs <= latencyBucketsMs[i]
             /\ \A j \in 1..(i - 1) : ~(valueMs <= latencyBucketsMs[j])) - 1
    ELSE -1

\* The recorder after recordLatency(valueMs).
recorded(valueMs) ==
    LET bucketIndex == findIndex(valueMs)
    IN  [latencyHistogram |->
            IF bucketIndex = -1
            THEN [latencyHistogram EXCEPT ![Len(latencyHistogram)] = @ + 1]
            ELSE [latencyHistogram EXCEPT ![bucketIndex + 1] = @ + 1],
         latencySumMs |-> latencySumMs + valueMs,
         latencyCount |-> latencyCount + 1]

\* recordLatency(valueMs)
recordLatency(valueMs) ==
    /\ latencyHistogram' = recorded(valueMs).latencyHistogram
    /\ latencySumMs' = recorded(valueMs).latencySumMs
    /\ latencyCount' = recorded(valueMs).latencyCount

\* p50, p95 and p99 of renderMetrics, the target percentile in hundredths.
Percentiles == {50, 95, 99}

RECURSIVE percentileLoopStrict(_, _, _, _)
\* Mutant: the cumulative count must exceed the threshold, `>` for `>=`.
percentileLoopStrict(histogram, threshold, i, cumulative) ==
    IF i >= Len(histogram)
    THEN latencyBucketsMs[Len(latencyBucketsMs)]
    ELSE IF (cumulative + histogram[i + 1]) * 100 > threshold
         THEN IF i < Len(latencyBucketsMs)
              THEN latencyBucketsMs[i + 1]
              ELSE latencyBucketsMs[Len(latencyBucketsMs)]
         ELSE percentileLoopStrict(histogram, threshold, i + 1, cumulative + histogram[i + 1])

RECURSIVE percentileLoop(_, _, _, _)
\* percentile's loop from index i (0-based) on, `cumulative` being the count of the
\* cells before i; the threshold is in hundredths, as the target percentile is.
percentileLoop(histogram, threshold, i, cumulative) ==
    IF i >= Len(histogram)
    THEN latencyBucketsMs[Len(latencyBucketsMs)]
    ELSE IF (cumulative + histogram[i + 1]) * 100 >= threshold
         THEN IF i < Len(latencyBucketsMs)
              THEN latencyBucketsMs[i + 1]
              ELSE latencyBucketsMs[Len(latencyBucketsMs)]
         ELSE percentileLoop(histogram, threshold, i + 1, cumulative + histogram[i + 1])

\* percentile(targetPercentile) over a given histogram and count.
percentileOf(histogram, count, targetPercentile) ==
    IF count = 0
    THEN 0
    ELSE percentileLoop(histogram, count * targetPercentile, 0, 0)

\* percentile(targetPercentile)
percentile(targetPercentile) ==
    percentileOf(latencyHistogram, latencyCount, targetPercentile)

\* ---------------------------------------------------------------- where records are
\* The records of the batches of a set of in-flight writes.
InFlight(writes) == UNION {Range(write.batch) : write \in writes}

\* Every dead letter there is or was: queued, being written, stored, or dropped.
AllLetters ==
    Range(deadLetters) \cup InFlight(deadWrites) \cup Range(dead_letters)
        \cup {drop.letter : drop \in dropLog}

\* The trace ids handleRequest rejected (503 or 400): their letters carry the reason.
RejectedIds ==
    {letter.trace_id : letter \in
        {l \in AllLetters : \/ StartsWith(l.error, QueueOverflow)
                            \/ StartsWith(l.error, BodyReadFailed)}}

\* The trace ids handleRequest accepted into pending (202).
AcceptedIds == ((1..totalReceived) \ reading) \ RejectedIds

\* How many entries of sequence s carry the trace id.
Count(s, traceId) == Cardinality({i \in 1..Len(s) : s[i].trace_id = traceId})

\* ---------------------------------------------------------------- initial state
Started(configs) ==
    /\ \E c \in configs :
          /\ batchSize = c.batchSize
          /\ maxQueueSize = c.maxQueueSize
          /\ maxDeadQueueSize = c.maxDeadQueueSize
    /\ pending = <<>>
    /\ deadLetters = <<>>
    /\ flushing = FALSE
    /\ deadFlushing = FALSE
    /\ totalReceived = 0
    /\ totalAccepted = 0
    /\ totalRejected = 0
    /\ totalDeadLetters = 0
    /\ totalDbErrors = 0
    /\ lastFlushAt = 0
    /\ lastDeadFlushAt = 0
    /\ lastFlushError = Null
    /\ lastDeadFlushError = Null
    /\ reading = {}
    /\ flushWrites = {}
    /\ deadWrites = {}
    /\ requests = <<>>
    /\ dead_letters = <<>>
    /\ dropLog = {}
    /\ responses = {}
    /\ latencyHistogram = [i \in 1..(Len(latencyBucketsMs) + 1) |-> 0]
    /\ latencySumMs = 0
    /\ latencyCount = 0
    /\ now = 1
    /\ shutdownPc = "idle"
    /\ acceptedBeforeShutdown = {}
    /\ lastCall = "other"

\* The state when the server starts to listen.
Init == Started(Configs)

\* The same, with queues of one slot among the configurations.
InitTight == Started(TightConfigs)

\* ---------------------------------------------------------------- dead-letter routing
\* Mutant: the capacity test of enqueueDeadLetter off by one, `>` for `>=`.
enqueueDeadLetterStrict(record, error) ==
    IF Len(deadLetters) > maxDeadQueueSize
    THEN /\ dropLog' = dropLog \cup
                {[letter |-> DeadLetterRecord(record, Slice(error, ErrLimit)), at |-> "enqueue"]}
         /\ UNCHANGED <<totalDeadLetters, deadLetters>>
    ELSE /\ totalDeadLetters' = totalDeadLetters + 1
         /\ deadLetters' = Append(deadLetters, DeadLetterRecord(record, Slice(error, ErrLimit)))
         /\ UNCHANGED dropLog

\* enqueueDeadLetter(record, error)
enqueueDeadLetter(record, error) ==
    IF Len(deadLetters) >= maxDeadQueueSize
    THEN /\ dropLog' = dropLog \cup
                {[letter |-> DeadLetterRecord(record, Slice(error, ErrLimit)), at |-> "enqueue"]}
         /\ UNCHANGED <<totalDeadLetters, deadLetters>>
    ELSE /\ totalDeadLetters' = totalDeadLetters + 1
         /\ deadLetters' = Append(deadLetters, DeadLetterRecord(record, Slice(error, ErrLimit)))
         /\ UNCHANGED dropLog

\* ---------------------------------------------------------------- admission
\* return new Response(..., { status }) / Response.json(..., { status })
Respond(traceId, status) ==
    responses' = responses \cup {[trace_id |-> traceId, status |-> status]}

\* handleRequest, POST /api/v1/events, up to `await req.text()`.
HandleRequest ==
    /\ Running
    /\ totalReceived < MaxRequests
    /\ totalReceived' = totalReceived + 1
    /\ reading' = reading \cup {totalReceived + 1}
    /\ UNCHANGED <<config, latency, responses, pending, deadLetters, flushing, deadFlushing, totalAccepted,
                   totalRejected, totalDeadLetters, totalDbErrors, lastFlushAt,
                   lastDeadFlushAt, lastFlushError, lastDeadFlushError, flushWrites,
                   deadWrites, requests, dead_letters, dropLog, now, shutdownPc>>

\* Mutant: the capacity test off by one, `>` for `>=`.
AtCapacityStrict == Len(pending) > maxQueueSize

\* Mutant: the capacity test off by one the other way, rejecting one slot early.
AtCapacityEarly == Len(pending) + 1 >= maxQueueSize

\* if (pending.length >= maxQueueSize)
AtCapacity == Len(pending) >= maxQueueSize

\* handleRequest after the body was read, to the `finally`.
BodyRead(traceId, valueMs) ==
    /\ Running
    /\ recordLatency(valueMs)
    /\ traceId \in reading
    /\ reading' = reading \ {traceId}
    /\ LET record == RequestRecord(traceId, "data")
       IN  IF AtCapacity
           THEN /\ enqueueDeadLetter(record, QueueOverflow)
                /\ totalRejected' = totalRejected + 1
                /\ Respond(traceId, 503)
                /\ UNCHANGED <<pending, totalAccepted>>
           ELSE /\ pending' = Append(pending, record)
                /\ totalAccepted' = totalAccepted + 1
                /\ Respond(traceId, 202)
                /\ UNCHANGED <<totalRejected, deadLetters, totalDeadLetters, dropLog>>
    /\ UNCHANGED <<config, flushing, deadFlushing, totalReceived, totalDbErrors, lastFlushAt,
                   lastDeadFlushAt, lastFlushError, lastDeadFlushError, flushWrites,
                   deadWrites, requests, dead_letters, now, shutdownPc>>

\* Mutant: the 400 path returns without counting the rejection.
BodyReadThrowsUncounted(traceId, error, valueMs) ==
    /\ Running
    /\ recordLatency(valueMs)
    /\ traceId \in reading
    /\ reading' = reading \ {traceId}
    /\ enqueueDeadLetter(RequestRecord(traceId, "null"), BodyReadFailed \o error)
    /\ Respond(traceId, 400)
    /\ UNCHANGED <<config, pending, flushing, deadFlushing, totalReceived, totalAccepted,
                   totalRejected, totalDbErrors, lastFlushAt, lastDeadFlushAt, lastFlushError,
                   lastDeadFlushError, flushWrites, deadWrites, requests, dead_letters,
                   now, shutdownPc>>

\* handleRequest after the body read threw, to the `finally`.
BodyReadThrows(traceId, error, valueMs) ==
    /\ Running
    /\ recordLatency(valueMs)
    /\ traceId \in reading
    /\ reading' = reading \ {traceId}
    /\ enqueueDeadLetter(RequestRecord(traceId, "null"), BodyReadFailed \o error)
    /\ totalRejected' = totalRejected + 1
    /\ Respond(traceId, 400)
    /\ UNCHANGED <<config, pending, flushing, deadFlushing, totalReceived, totalAccepted,
                   totalDbErrors, lastFlushAt, lastDeadFlushAt, lastFlushError,
                   lastDeadFlushError, flushWrites, deadWrites, requests, dead_letters,
                   now, shutdownPc>>

\* ---------------------------------------------------------------- record flush
\* Mutant: the in-flight flag is not tested.
FlushQueueIgnoresFlag == Len(pending) = 0

\* Mutant: the empty queue is not tested.
FlushQueueIgnoresEmpty == flushing

\* if (flushing || pending.length === 0) return;
FlushQueueReturnsEarly == flushing \/ Len(pending) = 0

\* Mutant: the batch is taken from the tail of the queue, not from its head.
flushQueueTakesTail(caller) ==
    IF FlushQueueReturnsEarly
    THEN UNCHANGED <<flushing, pending, flushWrites>>
    ELSE /\ flushing' = TRUE
         /\ pending' = SubSeq(pending, 1, Len(pending) - Min(Len(pending), batchSize))
         /\ flushWrites' = flushWrites \cup
                {[batch |-> SubSeq(pending, Len(pending) - Min(Len(pending), batchSize) + 1,
                                   Len(pending)),
                  caller |-> caller]}

\* Mutant: the batch is copied with slice(0, batchSize), not removed with splice.
flushQueueSlices(caller) ==
    IF FlushQueueReturnsEarly
    THEN UNCHANGED <<flushing, pending, flushWrites>>
    ELSE /\ flushing' = TRUE
         /\ pending' = pending
         /\ flushWrites' = flushWrites \cup
                {[batch |-> SubSeq(pending, 1, Min(Len(pending), batchSize)),
                  caller |-> caller]}

\* flushQueue() up to `await sql`: the guard, the flag and the splice.
flushQueue(caller) ==
    IF FlushQueueReturnsEarly
    THEN UNCHANGED <<flushing, pending, flushWrites>>
    ELSE /\ flushing' = TRUE
         /\ pending' = SubSeq(pending, Min(Len(pending), batchSize) + 1, Len(pending))
         /\ flushWrites' = flushWrites \cup
                {[batch |-> SubSeq(pending, 1, Min(Len(pending), batchSize)),
                  caller |-> caller]}

\* setInterval(() => void flushQueue(), flushIntervalMs)
TimerFlushQueue ==
    /\ Running
    /\ flushQueue("timer")
    /\ UNCHANGED <<config, latency, responses, deadLetters, deadFlushing, totalReceived, totalAccepted,
                   totalRejected, totalDeadLetters, totalDbErrors, lastFlushAt,
                   lastDeadFlushAt, lastFlushError, lastDeadFlushError, reading,
                   deadWrites, requests, dead_letters, dropLog, now, shutdownPc>>

\* shutdown() resumes after `await flushQueue()` when its own flush completes.
ShutdownAfterFlushQueue(write) ==
    IF write.caller = "shutdown"
    THEN shutdownPc' = "flushDeadLetters"
    ELSE UNCHANGED shutdownPc

\* Mutant: a successful insert leaves the last error as it was.
FlushQueueInsertedKeepsError(write) ==
    /\ Running
    /\ write \in flushWrites
    /\ flushWrites' = flushWrites \ {write}
    /\ requests' = requests \o write.batch
    /\ lastFlushAt' = now
    /\ flushing' = FALSE
    /\ ShutdownAfterFlushQueue(write)
    /\ UNCHANGED <<config, latency, responses, pending, deadLetters, deadFlushing, totalReceived, totalAccepted,
                   totalRejected, totalDeadLetters, totalDbErrors, lastDeadFlushAt,
                   lastFlushError, lastDeadFlushError, reading, deadWrites, dead_letters,
                   dropLog, now>>

\* flushQueue(): the insert succeeded.
FlushQueueInserted(write) ==
    /\ Running
    /\ write \in flushWrites
    /\ flushWrites' = flushWrites \ {write}
    /\ requests' = requests \o write.batch
    /\ lastFlushError' = Null
    /\ lastFlushAt' = now
    /\ flushing' = FALSE
    /\ ShutdownAfterFlushQueue(write)
    /\ UNCHANGED <<config, latency, responses, pending, deadLetters, deadFlushing, totalReceived, totalAccepted,
                   totalRejected, totalDeadLetters, totalDbErrors, lastDeadFlushAt,
                   lastDeadFlushError, reading, deadWrites, dead_letters, dropLog, now>>

\* Mutant: the error is the store's message alone, without the `insert_failed: ` prefix.
InsertFailedLettersNoPrefix(batch, errorMessage) ==
    [i \in 1..Len(batch) |-> DeadLetterRecord(batch[i], errorMessage)]

\* Mutant: only the first record of the failed batch is dead-lettered.
InsertFailedLettersFirstOnly(batch, errorMessage) ==
    [i \in 1..Min(Len(batch), 1) |-> DeadLetterRecord(batch[i], InsertFailed \o errorMessage)]

\* batch.map((record) => ({...record, error: `insert_failed: ${errorMessage}`}))
InsertFailedLetters(batch, errorMessage) ==
    [i \in 1..Len(batch) |-> DeadLetterRecord(batch[i], InsertFailed \o errorMessage)]

\* Mutant: the timestamp is written on the success path only, not in `finally`.
FlushQueueThrowsKeepsTimestamp(write, errorMessage) ==
    /\ Running
    /\ write \in flushWrites
    /\ totalDbErrors < MaxDbErrors
    /\ flushWrites' = flushWrites \ {write}
    /\ totalDbErrors' = totalDbErrors + 1
    /\ lastFlushError' = errorMessage
    /\ deadLetters' = deadLetters \o InsertFailedLetters(write.batch, errorMessage)
    /\ flushing' = FALSE
    /\ ShutdownAfterFlushQueue(write)
    /\ UNCHANGED <<config, latency, responses, pending, deadFlushing, totalReceived, totalAccepted, totalRejected,
                   totalDeadLetters, lastFlushAt, lastDeadFlushAt, lastDeadFlushError, reading,
                   deadWrites, requests, dead_letters, dropLog, now>>

\* flushQueue(): the insert threw.
FlushQueueThrows(write, errorMessage) ==
    /\ Running
    /\ write \in flushWrites
    /\ totalDbErrors < MaxDbErrors
    /\ flushWrites' = flushWrites \ {write}
    /\ totalDbErrors' = totalDbErrors + 1
    /\ lastFlushError' = errorMessage
    /\ deadLetters' = deadLetters \o InsertFailedLetters(write.batch, errorMessage)
    /\ lastFlushAt' = now
    /\ flushing' = FALSE
    /\ ShutdownAfterFlushQueue(write)
    /\ UNCHANGED <<config, latency, responses, pending, deadFlushing, totalReceived, totalAccepted, totalRejected,
                   totalDeadLetters, lastDeadFlushAt, lastDeadFlushError, reading,
                   deadWrites, requests, dead_letters, dropLog, now>>

\* ---------------------------------------------------------------- dead-letter flush
\* if (deadFlushing || deadLetters.length === 0) return;
FlushDeadLettersReturnsEarly == deadFlushing \/ Len(deadLetters) = 0

\* flushDeadLetters() up to `await sql`: the guard, the flag and the splice.
flushDeadLetters(caller) ==
    IF FlushDeadLettersReturnsEarly
    THEN UNCHANGED <<deadFlushing, deadLetters, deadWrites>>
    ELSE /\ deadFlushing' = TRUE
         /\ deadLetters' = SubSeq(deadLetters, Min(Len(deadLetters), batchSize) + 1,
                                  Len(deadLetters))
         /\ deadWrites' = deadWrites \cup
                {[batch |-> SubSeq(deadLetters, 1, Min(Len(deadLetters), batchSize)),
                  caller |-> caller]}

\* setInterval(() => void flushDeadLetters(), deadFlushIntervalMs)
TimerFlushDeadLetters ==
    /\ Running
    /\ flushDeadLetters("timer")
    /\ UNCHANGED <<config, latency, responses, pending, flushing, totalReceived, totalAccepted, totalRejected,
                   totalDeadLetters, totalDbErrors, lastFlushAt, lastDeadFlushAt,
                   lastFlushError, lastDeadFlushError, reading, flushWrites, requests,
                   dead_letters, dropLog, now, shutdownPc>>

\* shutdown() resumes after `await flushDeadLetters()` when its own flush completes.
ShutdownAfterFlushDeadLetters(write) ==
    IF write.caller = "shutdown"
    THEN shutdownPc' = "end"
    ELSE UNCHANGED shutdownPc

\* Mutant: the `finally` of flushDeadLetters missing, deadFlushing left set after a
\* successful insert.
FlushDeadLettersInsertedKeepsFlag(write) ==
    /\ Running
    /\ write \in deadWrites
    /\ deadWrites' = deadWrites \ {write}
    /\ dead_letters' = dead_letters \o write.batch
    /\ lastDeadFlushError' = Null
    /\ lastDeadFlushAt' = now
    /\ deadFlushing' = TRUE
    /\ ShutdownAfterFlushDeadLetters(write)
    /\ UNCHANGED <<config, latency, responses, pending, deadLetters, flushing, totalReceived, totalAccepted,
                   totalRejected, totalDeadLetters, totalDbErrors, lastFlushAt,
                   lastFlushError, reading, flushWrites, requests, dropLog, now>>

\* flushDeadLetters(): the insert succeeded.
FlushDeadLettersInserted(write) ==
    /\ Running
    /\ write \in deadWrites
    /\ deadWrites' = deadWrites \ {write}
    /\ dead_letters' = dead_letters \o write.batch
    /\ lastDeadFlushError' = Null
    /\ lastDeadFlushAt' = now
    /\ deadFlushing' = FALSE
    /\ ShutdownAfterFlushDeadLetters(write)
    /\ UNCHANGED <<config, latency, responses, pending, deadLetters, flushing, totalReceived, totalAccepted,
                   totalRejected, totalDeadLetters, totalDbErrors, lastFlushAt,
                   lastFlushError, reading, flushWrites, requests, dropLog, now>>

\* batch.map((record) => ({...record, error: `${record.error}; dead_letter_insert_failed:
\* ${errorMessage}`.slice(0, 1000)}))
RequeueLetters(batch, errorMessage) ==
    [i \in 1..Len(batch) |->
        DeadLetterRecord(batch[i],
            Slice(batch[i].error \o DeadLetterInsertFailed \o errorMessage, ErrLimit))]

\* if (deadLetters.length + requeue.length <= maxDeadQueueSize)
RequeueFits(requeue) == Len(deadLetters) + Len(requeue) <= maxDeadQueueSize

\* Mutant: a batch that does not fit is put back as far as there is room, unlogged.
RequeuePartly(requeue) ==
    /\ deadLetters' = SubSeq(requeue \o deadLetters, 1,
                             Min(Len(requeue) + Len(deadLetters), maxDeadQueueSize))
    /\ UNCHANGED dropLog

\* Mutant: a batch that fits is put back with push, at the tail.
RequeueAtTail(requeue) ==
    IF RequeueFits(requeue)
    THEN /\ deadLetters' = deadLetters \o requeue
         /\ UNCHANGED dropLog
    ELSE /\ dropLog' = dropLog \cup
                {[letter |-> requeue[i], at |-> "requeue"] : i \in 1..Len(requeue)}
         /\ UNCHANGED deadLetters

\* deadLetters.unshift(...requeue), or the overflow log.
Requeue(requeue) ==
    IF RequeueFits(requeue)
    THEN /\ deadLetters' = requeue \o deadLetters
         /\ UNCHANGED dropLog
    ELSE /\ dropLog' = dropLog \cup
                {[letter |-> requeue[i], at |-> "requeue"] : i \in 1..Len(requeue)}
         /\ UNCHANGED deadLetters

\* flushDeadLetters(): the insert threw.
FlushDeadLettersThrows(write, errorMessage) ==
    /\ Running
    /\ write \in deadWrites
    /\ totalDbErrors < MaxDbErrors
    /\ deadWrites' = deadWrites \ {write}
    /\ totalDbErrors' = totalDbErrors + 1
    /\ lastDeadFlushError' = errorMessage
    /\ Requeue(RequeueLetters(write.batch, errorMessage))
    /\ lastDeadFlushAt' = now
    /\ deadFlushing' = FALSE
    /\ ShutdownAfterFlushDeadLetters(write)
    /\ UNCHANGED <<config, latency, responses, pending, flushing, totalReceived, totalAccepted, totalRejected,
                   totalDeadLetters, lastFlushAt, lastFlushError, reading, flushWrites,
                   requests, dead_letters, now>>

\* ---------------------------------------------------------------- shutdown
\* process.on("SIGINT" | "SIGTERM", shutdown): shutdown() up to `await flushQueue()`.
Shutdown ==
    /\ shutdownPc = "idle"
    /\ flushQueue("shutdown")
    /\ shutdownPc' = IF FlushQueueReturnsEarly THEN "flushDeadLetters" ELSE "flushQueue"
    /\ UNCHANGED <<config, latency, responses, deadLetters, deadFlushing, totalReceived, totalAccepted,
                   totalRejected, totalDeadLetters, totalDbErrors, lastFlushAt,
                   lastDeadFlushAt, lastFlushError, lastDeadFlushError, reading,
                   deadWrites, requests, dead_letters, dropLog, now>>

\* shutdown(): `await flushDeadLetters()`.
ShutdownFlushDeadLetters ==
    /\ shutdownPc = "flushDeadLetters"
    /\ flushDeadLetters("shutdown")
    /\ shutdownPc' = IF FlushDeadLettersReturnsEarly THEN "end" ELSE "awaitDeadLetters"
    /\ UNCHANGED <<config, latency, responses, pending, flushing, totalReceived, totalAccepted, totalRejected,
                   totalDeadLetters, totalDbErrors, lastFlushAt, lastDeadFlushAt,
                   lastFlushError, lastDeadFlushError, reading, flushWrites, requests,
                   dead_letters, dropLog, now>>

\* shutdown(): `await sql.end({ timeout: 5 })` releases the store connection.
ShutdownEnd ==
    /\ shutdownPc = "end"
    /\ shutdownPc' = "ending"
    /\ UNCHANGED <<config, latency, responses, progVars, reading, flushWrites, deadWrites, requests, dead_letters,
                   dropLog, now>>

\* shutdown(): process.exit(0).
ShutdownExit ==
    /\ shutdownPc = "ending"
    /\ shutdownPc' = "exited"
    /\ UNCHANGED <<config, latency, responses, progVars, reading, flushWrites, deadWrites, requests, dead_letters,
                   dropLog, now>>

\* ---------------------------------------------------------------- clock
\* Time passes between two readings of Date.now().
Tick ==
    /\ Running
    /\ now < MaxClock
    /\ now' = now + 1
    /\ UNCHANGED <<config, latency, responses, progVars, reading, flushWrites, deadWrites, requests, dead_letters,
                   dropLog, shutdownPc>>

\* ---------------------------------------------------------------- specification
\* The two observers, which no handler reads: lastCall and acceptedBeforeShutdown.
observers == <<lastCall, acceptedBeforeShutdown>>

\* The server at work: admissions, the two flush timers and the store's answers.
Next ==
    \/ HandleRequest /\ UNCHANGED observers
    \/ \E traceId \in reading, valueMs \in Elapsed :
          BodyRead(traceId, valueMs) /\ UNCHANGED observers
    \/ \E traceId \in reading, error \in BodyErrors, valueMs \in Elapsed :
          BodyReadThrows(traceId, error, valueMs) /\ UNCHANGED observers
    \/ TimerFlushQueue /\ UNCHANGED observers
    \/ \E write \in flushWrites : FlushQueueInserted(write) /\ UNCHANGED observers
    \/ \E write \in flushWrites, error \in DbErrors :
          FlushQueueThrows(write, error) /\ UNCHANGED observers
    \/ TimerFlushDeadLetters /\ UNCHANGED observers
    \/ \E write \in deadWrites : FlushDeadLettersInserted(write) /\ UNCHANGED observers
    \/ \E write \in deadWrites, error \in DbErrors :
          FlushDeadLettersThrows(write, error) /\ UNCHANGED observers

Spec == Init /\ [][Next]_vars

\* The server at work, lastCall naming the flush a timer invoked in the last step.
Called(call) == lastCall' = call /\ UNCHANGED acceptedBeforeShutdown

NextCalls ==
    \/ HandleRequest /\ Called("other")
    \/ \E traceId \in reading, valueMs \in Elapsed :
          BodyRead(traceId, valueMs) /\ Called("other")
    \/ \E traceId \in reading, error \in BodyErrors, valueMs \in Elapsed :
          BodyReadThrows(traceId, error, valueMs) /\ Called("other")
    \/ TimerFlushQueue /\ Called("flushQueue")
    \/ \E write \in flushWrites : FlushQueueInserted(write) /\ Called("other")
    \/ \E write \in flushWrites, error \in DbErrors :
          FlushQueueThrows(write, error) /\ Called("other")
    \/ TimerFlushDeadLetters /\ Called("flushDeadLetters")
    \/ \E write \in deadWrites : FlushDeadLettersInserted(write) /\ Called("other")
    \/ \E write \in deadWrites, error \in DbErrors :
          FlushDeadLettersThrows(write, error) /\ Called("other")

SpecCalls == Init /\ [][NextCalls]_vars

\* The server at work, and SIGINT or SIGTERM arriving at any moment.
NextShutdown ==
    \/ Next
    \/ Shutdown /\ UNCHANGED observers
    \/ ShutdownFlushDeadLetters /\ UNCHANGED observers
    \/ ShutdownEnd /\ UNCHANGED observers
    \/ ShutdownExit /\ UNCHANGED observers

SpecShutdown == Init /\ [][NextShutdown]_vars

\* The same, remembering the trace ids accepted before shutdown() was called.
NextShutdownAudit ==
    \/ Next
    \/ Shutdown /\ acceptedBeforeShutdown' = AcceptedIds /\ UNCHANGED lastCall
    \/ ShutdownFlushDeadLetters /\ UNCHANGED observers
    \/ ShutdownEnd /\ UNCHANGED observers
    \/ ShutdownExit /\ UNCHANGED observers

SpecShutdownAudit == Init /\ [][NextShutdownAudit]_vars

\* The server at work, with the clock advancing between the handlers.
NextClock ==
    \/ Next
    \/ Tick /\ UNCHANGED observers

SpecClock == Init /\ [][NextClock]_vars

\* The store answers the record insert in flight, with success or with an error.
FlushQueueAnswered ==
    \E write \in flushWrites :
        \/ FlushQueueInserted(write) /\ UNCHANGED observers
        \/ \E error \in DbErrors : FlushQueueThrows(write, error) /\ UNCHANGED observers

\* The store answers the dead-letter insert in flight, with success or with an error.
FlushDeadLettersAnswered ==
    \E write \in deadWrites :
        \/ FlushDeadLettersInserted(write) /\ UNCHANGED observers
        \/ \E error \in DbErrors : FlushDeadLettersThrows(write, error) /\ UNCHANGED observers

\* The server at work with the clock, every store write eventually returning.
SpecClockFair ==
    SpecClock /\ WF_vars(FlushQueueAnswered) /\ WF_vars(FlushDeadLettersAnswered)

\* The server at work, with the store also failing with messages over the error limit.
NextLong ==
    \/ Next
    \/ \E write \in flushWrites, error \in LongDbErrors :
          FlushQueueThrows(write, error) /\ UNCHANGED observers
    \/ \E write \in deadWrites, error \in LongDbErrors :
          FlushDeadLettersThrows(write, error) /\ UNCHANGED observers

SpecLong == Init /\ [][NextLong]_vars

\* The admissions alone, their elapsed times varying; the flushes, which never touch
\* the Latency Recorder, are left to the other specifications.
NextLatency ==
    \/ HandleRequest /\ UNCHANGED observers
    \/ \E traceId \in reading, valueMs \in Latencies :
          BodyRead(traceId, valueMs) /\ UNCHANGED observers
    \/ \E traceId \in reading, error \in BodyErrors, valueMs \in Latencies :
          BodyReadThrows(traceId, error, valueMs) /\ UNCHANGED observers

SpecLatency == Init /\ [][NextLatency]_vars

\* The server at work with queues that fill with few requests.
SpecTight == InitTight /\ [][Next]_vars

\* The record-flush timer fires and its flushQueue() does not return at the guard.
TimerFlushQueueFires == TimerFlushQueue /\ UNCHANGED observers

\* The dead-letter timer fires and its flushDeadLetters() does not return at the guard.
TimerFlushDeadLettersFires == TimerFlushDeadLetters /\ UNCHANGED observers

\* The server at work, both interval timers firing for ever and every store write
\* eventually returning. A timer that finds its guard closed changes nothing, so
\* the fairness bears on the firings that start a flush.
SpecFair ==
    /\ Spec
    /\ WF_vars(TimerFlushQueueFires)
    /\ WF_vars(TimerFlushDeadLettersFires)
    /\ WF_vars(FlushQueueAnswered)
    /\ WF_vars(FlushDeadLettersAnswered)

\* ---------------------------------------------------------------- properties
\* No flush of either queue has executed yet.
NoFlushYet ==
    /\ flushWrites = {} /\ lastFlushAt = 0
    /\ deadWrites = {} /\ lastDeadFlushAt = 0

\* No body read has failed: no letter, kept or dropped, carries body_read_failed.
AllBodiesRead == \A letter \in AllLetters : ~StartsWith(letter.error, BodyReadFailed)

\* C1: in every reachable state the Record Queue holds at most maxQueueSize records,
\* whatever the interleaving of admissions (several may be suspended at the body
\* read at once), record flushes and dead-letter flushes.
C1_PendingBounded == Len(pending) <= maxQueueSize

\* The queue is full and an admission was turned away for it: the one that started
\* first, its body read outlasting those of the admissions that filled the queue.
C1_Witness ==
    /\ Len(pending) = maxQueueSize
    /\ \E i \in 1..Len(deadLetters) :
          /\ deadLetters[i].error = QueueOverflow
          /\ \A j \in 1..Len(pending) : deadLetters[i].trace_id < pending[j].trace_id

\* C2: in every reachable state the Dead-Letter Queue holds at most maxDeadQueueSize
\* records, whatever the interleaving of admissions, record flushes and dead-letter
\* flushes, succeeding or failing.
C2_DeadLettersBounded == Len(deadLetters) <= maxDeadQueueSize

\* C3: from empty queues and zero counters, n admissions with readable bodies and no
\* flush in between (n - maxQueueSize <= maxDeadQueueSize) leave min(n, maxQueueSize)
\* records in the Record Queue, the others in the Dead-Letter Queue, each with error
\* exactly "queue_overflow" and none of them in the Record Queue, and
\* totalAccepted = min(n, maxQueueSize), totalRejected = n - totalAccepted,
\* totalReceived = n.
C3_AdmitWithoutFlush ==
    (/\ NoFlushYet
     /\ AllBodiesRead
     /\ reading = {}
     /\ totalReceived - maxQueueSize <= maxDeadQueueSize)
    => LET n == totalReceived
           accepted == Min(n, maxQueueSize)
       IN  /\ Len(pending) = accepted
           /\ Len(deadLetters) = n - accepted
           /\ \A i \in 1..Len(deadLetters) : deadLetters[i].error = QueueOverflow
           /\ TraceIds(pending) \cap TraceIds(deadLetters) = {}
           /\ TraceIds(pending) \cup TraceIds(deadLetters) = 1..n
           /\ Cardinality(TraceIds(pending)) = accepted
           /\ Cardinality(TraceIds(deadLetters)) = n - accepted
           /\ totalAccepted = accepted
           /\ totalRejected = n - accepted
           /\ totalReceived = n

\* maxQueueSize = 2 and three requests admitted with no flush: 2 / 1 / 2 / 1 / 3.
C3_Witness ==
    /\ NoFlushYet /\ AllBodiesRead /\ reading = {}
    /\ maxQueueSize = 2
    /\ totalReceived = 3
    /\ Len(pending) = 2
    /\ Len(deadLetters) = 1
    /\ totalAccepted = 2
    /\ totalRejected = 1

\* A record flush executes in this step: flushQueue() removes a batch and starts its write.
FlushQueueStarts == \E write \in flushWrites' : write \notin flushWrites

\* A record flush fails in this step: its write leaves and the store error is counted.
FlushQueueFails(write) ==
    /\ write \in flushWrites
    /\ write \notin flushWrites'
    /\ totalDbErrors' = totalDbErrors + 1

\* C4: an executed record flush over a Record Queue of k records removes exactly
\* b = min(k, batchSize) records, the first b; when its write fails the
\* Dead-Letter Queue grows by exactly b: every record of the batch is appended to
\* its tail, in batch order, with an error that starts with "insert_failed: ".
C4_FailedFlushMovesBatch ==
    [][/\ FlushQueueStarts =>
            LET b == Min(Len(pending), batchSize)
            IN  /\ Len(pending') = Len(pending) - b
                /\ pending' = SubSeq(pending, b + 1, Len(pending))
                /\ \E write \in flushWrites' :
                      /\ write \notin flushWrites
                      /\ write.batch = SubSeq(pending, 1, b)
                /\ deadLetters' = deadLetters
       /\ \A write \in flushWrites : FlushQueueFails(write) =>
            LET moved == Len(write.batch)
            IN  /\ moved >= 1 /\ moved <= batchSize
                /\ pending' = pending
                /\ Len(deadLetters') = Len(deadLetters) + moved
                /\ SubSeq(deadLetters', 1, Len(deadLetters)) = deadLetters
                /\ \A i \in 1..moved :
                      LET letter == deadLetters'[Len(deadLetters) + i]
                      IN  /\ letter.trace_id = write.batch[i].trace_id
                          /\ letter.payload = write.batch[i].payload
                          /\ StartsWith(letter.error, InsertFailed)
                          /\ StrLen(letter.error) > StrLen(InsertFailed)
      ]_vars

\* A failed record flush has just put its batch of two behind an older dead letter.
C4_Witness ==
    /\ batchSize = 2
    /\ lastFlushError # Null
    /\ ~flushing
    /\ Len(deadLetters) = 3
    /\ StartsWith(deadLetters[1].error, BodyReadFailed)
    /\ StartsWith(deadLetters[2].error, InsertFailed)
    /\ StartsWith(deadLetters[3].error, InsertFailed)
    /\ deadLetters[2].trace_id < deadLetters[3].trace_id

\* Every flush cycle has run to its end: nothing awaits a body read, a flush or a write.
Quiescent == reading = {} /\ pending = <<>> /\ flushWrites = {} /\ deadWrites = {}

\* The Record Queue never turned an admission away: no letter carries queue_overflow.
NeverOverflowed == \A letter \in AllLetters : ~StartsWith(letter.error, QueueOverflow)

\* In how many places a record is: table requests, the Dead-Letter Queue, table
\* dead_letters (each counted with multiplicity).
Places(traceId) ==
    Count(requests, traceId) + Count(deadLetters, traceId) + Count(dead_letters, traceId)

\* The record was in a failed dead-letter batch that did not fit back and was dropped.
DroppedOnRequeue(traceId) ==
    \E drop \in dropLog : drop.at = "requeue" /\ drop.letter.trace_id = traceId

\* C5, as claimed: when the Record Queue never overflowed and the flush cycles have
\* run to quiescence, every admitted record is exactly once in exactly one of table
\* requests, the Dead-Letter Queue and table dead_letters.
C5_ExactlyOnce ==
    (Quiescent /\ NeverOverflowed) => \A traceId \in AcceptedIds : Places(traceId) = 1

\* C5, amended: ... every admitted record is exactly once in exactly one of the three
\* places, unless it was in a failed dead-letter batch that was dropped on requeue
\* (with the overflow log), and then it is in none.
C5_ExactlyOnceUnlessDropped ==
    (Quiescent /\ NeverOverflowed) =>
        \A traceId \in AcceptedIds :
            IF DroppedOnRequeue(traceId) THEN Places(traceId) = 0 ELSE Places(traceId) = 1

\* Quiescence with one admitted record in table requests, one in table dead_letters
\* and one dropped on requeue.
C5_Witness ==
    /\ Quiescent /\ NeverOverflowed
    /\ \E traceId \in AcceptedIds : DroppedOnRequeue(traceId)
    /\ \E traceId \in AcceptedIds : Count(dead_letters, traceId) = 1
    /\ \E traceId \in AcceptedIds : Count(requests, traceId) = 1

\* A dead-letter flush fails in this step: its write leaves and the error is counted.
FlushDeadLettersFails(write) ==
    /\ write \in deadWrites
    /\ write \notin deadWrites'
    /\ totalDbErrors' = totalDbErrors + 1

\* The failed batch is back at the front, whole and in order, and nothing is logged.
RequeuedWhole(batch) ==
    /\ Len(deadLetters') = Len(batch) + Len(deadLetters)
    /\ \A i \in 1..Len(batch) : deadLetters'[i].trace_id = batch[i].trace_id
    /\ SubSeq(deadLetters', Len(batch) + 1, Len(deadLetters')) = deadLetters
    /\ dropLog' = dropLog

\* The failed batch is gone, whole, and the overflow is logged.
DroppedWhole(batch) ==
    /\ deadLetters' = deadLetters
    /\ {drop.letter.trace_id : drop \in dropLog' \ dropLog} = TraceIds(batch)
    /\ \A drop \in dropLog' \ dropLog : drop.at = "requeue"

\* C6: when a dead-letter flush write fails, the requeue step never leaves the
\* Dead-Letter Queue longer than maxDeadQueueSize and is all-or-nothing: the whole
\* batch is reinserted when current length + batch length <= maxDeadQueueSize, and
\* otherwise the whole batch is dropped with an overflow log.
C6_RequeueAllOrNothing ==
    [][\A write \in deadWrites : FlushDeadLettersFails(write) =>
          /\ Len(deadLetters') <= maxDeadQueueSize
          /\ IF Len(deadLetters) + Len(write.batch) <= maxDeadQueueSize
             THEN RequeuedWhole(write.batch)
             ELSE DroppedWhole(write.batch)
      ]_vars

\* C7: at any time at most one record-flush write and at most one dead-letter-flush
\* write is in flight, whoever invoked the flushes (timer or shutdown) and however
\* they interleave with admissions, and a write in flight keeps its queue's flag set.
C7_NonOverlap ==
    /\ Cardinality(flushWrites) <= 1
    /\ Cardinality(deadWrites) <= 1
    /\ flushWrites # {} => flushing
    /\ deadWrites # {} => deadFlushing

\* shutdown()'s record flush and a timer's dead-letter flush are both in flight while
\* records wait in the Record Queue, where every timer tick is turned away.
C7_Witness ==
    /\ \E write \in flushWrites : write.caller = "shutdown"
    /\ \E write \in deadWrites : write.caller = "timer"
    /\ Len(pending) > 0

\* What a flush could change: the reported state, the writes and the tables.
flushed == <<progVars, flushWrites, deadWrites, requests, dead_letters, dropLog>>

\* C8: a flush invocation that finds its queue empty or its in-flight flag set
\* changes nothing: queues, counters, last errors, flags and last-flush timestamps.
C8_EarlyReturnChangesNothing ==
    [][/\ (lastCall' = "flushQueue" /\ (flushing \/ Len(pending) = 0))
            => UNCHANGED flushed
       /\ (lastCall' = "flushDeadLetters" /\ (deadFlushing \/ Len(deadLetters) = 0))
            => UNCHANGED flushed
      ]_vars

\* The timer has just invoked flushQueue() on a non-empty queue whose flush is in
\* flight (a flush that executed would have taken the whole queue, batchSize being
\* maxQueueSize), with both timestamps still null.
C8_Witness ==
    /\ lastCall = "flushQueue"
    /\ batchSize = maxQueueSize
    /\ flushing
    /\ Len(pending) > 0
    /\ lastFlushAt = 0
    /\ lastDeadFlushAt = 0

\* C9: shutdown performs one final flush of both queues before it releases the store
\* connection: from any state in which it is triggered, a batch of each non-empty
\* queue is removed and written, and no flush write is in flight when sql.end() is
\* called.
C9_ShutdownFlushesBothQueues ==
    [][/\ (shutdownPc = "idle" /\ shutdownPc' # "idle" /\ Len(pending) > 0)
            => \E write \in flushWrites' :
                  write \notin flushWrites /\ write.caller = "shutdown"
       /\ (shutdownPc = "flushDeadLetters" /\ shutdownPc' # "flushDeadLetters"
                /\ Len(deadLetters) > 0)
            => \E write \in deadWrites' :
                  write \notin deadWrites /\ write.caller = "shutdown"
       /\ (shutdownPc # "ending" /\ shutdownPc' = "ending")
            => (flushWrites' = {} /\ deadWrites' = {})
      ]_vars

\* C10: when shutdown runs and no store write fails (nor is one cut off by the exit),
\* every record accepted into the Record Queue before shutdown() was called is in
\* table requests when the process has exited, whatever the queue's length.
C10_ShutdownFlushesAccepted ==
    (/\ shutdownPc = "exited"
     /\ totalDbErrors = 0
     /\ flushWrites = {})
    => acceptedBeforeShutdown \subseteq TraceIds(requests)

\* The trace ids routed to dead-lettering: admissions that ended and whose record is
\* neither in the Record Queue, nor in a record flush in flight, nor in table requests.
RoutedIds ==
    ((1..totalReceived) \ reading)
        \ (TraceIds(pending) \cup {record.trace_id : record \in InFlight(flushWrites)}
                \cup TraceIds(requests))

\* The record still exists as a dead letter: queued, being written, or stored.
InDeadLettering(traceId) ==
    \/ traceId \in TraceIds(deadLetters)
    \/ traceId \in {letter.trace_id : letter \in InFlight(deadWrites)}
    \/ traceId \in TraceIds(dead_letters)

\* The record was lost to one of the two logged overflow drops.
Dropped(traceId) == \E drop \in dropLog : drop.letter.trace_id = traceId

\* Every record routed to dead-lettering exists or was dropped with the overflow log.
RoutedKept == \A traceId \in RoutedIds : InDeadLettering(traceId) \/ Dropped(traceId)

\* Every drop of this step is an overflow drop: enqueueDeadLetter found the queue at
\* capacity, or a failed dead-letter flush found that its batch would not fit back.
DropsAreOverflow ==
    \A drop \in dropLog' \ dropLog :
        \/ /\ drop.at = "enqueue"
           /\ Len(deadLetters) >= maxDeadQueueSize
        \/ /\ drop.at = "requeue"
           /\ \E write \in deadWrites \ deadWrites' :
                 /\ drop.letter.trace_id \in TraceIds(write.batch)
                 /\ Len(deadLetters) + Len(write.batch) > maxDeadQueueSize
                 /\ totalDbErrors' = totalDbErrors + 1

\* C11: in a run without process termination, a record routed to dead-lettering
\* ceases to exist (no queue, no batch in flight, no table) only by one of the two
\* overflow drops: enqueueDeadLetter at capacity, or a failed dead-letter flush whose
\* requeue would exceed maxDeadQueueSize.
C11_DroppedOnlyOnOverflow == [][RoutedKept' /\ DropsAreOverflow]_vars

\* Both overflow drops have happened, and no dropped record exists anywhere any more.
C11_Witness ==
    /\ \E drop \in dropLog : drop.at = "enqueue"
    /\ \E drop \in dropLog : drop.at = "requeue"
    /\ \A traceId \in RoutedIds : Dropped(traceId) => ~InDeadLettering(traceId)

\* How many entries of the batches of a set of writes in flight carry the trace id.
CountInFlight(writes, traceId) ==
    Cardinality({p \in UNION {{<<write, i>> : i \in 1..Len(write.batch)} : write \in writes} :
                    p[1].batch[p[2]].trace_id = traceId})

\* In how many places the record of an admission is, each counted with multiplicity:
\* the two queues, the two batches in flight, the two tables, and the overflow drops.
Presences(traceId) ==
    Count(pending, traceId) + CountInFlight(flushWrites, traceId) + Count(requests, traceId)
        + Count(deadLetters, traceId) + CountInFlight(deadWrites, traceId)
        + Count(dead_letters, traceId)
        + Cardinality({drop \in dropLog : drop.letter.trace_id = traceId})

\* C12: in every reachable state no record is in both queues, nor twice in a queue,
\* nor in a queue while also in a batch in flight or in a table; a record that was
\* created is in exactly one place until a durable write stores it or an overflow
\* drop loses it, and the record of an admission still reading its body is nowhere.
C12_OnePlaceAtATime ==
    /\ \A traceId \in (1..totalReceived) \ reading : Presences(traceId) = 1
    /\ \A traceId \in reading : Presences(traceId) = 0

\* One record is stored in table requests, one in table dead_letters, and the third
\* went from a failed record flush to the Dead-Letter Queue.
C12_Witness ==
    /\ Len(requests) = 1
    /\ Len(dead_letters) = 1
    /\ Len(deadLetters) = 1
    /\ StartsWith(deadLetters[1].error, InsertFailed)

\* An admission attempt starts in this step: one more handleRequest awaits its body.
AdmissionStarts == \E traceId \in reading' : traceId \notin reading

\* The admission attempt ends in this step.
AdmissionEnds(traceId) == traceId \in reading /\ traceId \notin reading'

\* Accepted: counted once, and the record is appended to the Record Queue's tail.
EndsAccepted(traceId) ==
    /\ totalAccepted' = totalAccepted + 1
    /\ totalRejected' = totalRejected
    /\ Len(pending') = Len(pending) + 1
    /\ SubSeq(pending', 1, Len(pending)) = pending
    /\ pending'[Len(pending')].trace_id = traceId

\* Rejected (overflow or bad body): counted once, and the Record Queue is unchanged.
EndsRejected(traceId) ==
    /\ totalRejected' = totalRejected + 1
    /\ totalAccepted' = totalAccepted
    /\ pending' = pending

\* C13: every admission attempt increments totalReceived exactly once, when it
\* starts, and ends in exactly one of Accepted (totalAccepted + 1, record appended to
\* the Record Queue's tail) and Rejected (totalRejected + 1, Record Queue unchanged);
\* no other step changes the three counters; hence in every state totalReceived =
\* totalAccepted + totalRejected + the number of admissions suspended at the body read.
C13_AdmissionCounters ==
    [][/\ totalReceived' = totalAccepted' + totalRejected' + Cardinality(reading')
       /\ IF AdmissionStarts
          THEN /\ totalReceived' = totalReceived + 1
               /\ Cardinality(reading') = Cardinality(reading) + 1
               /\ UNCHANGED <<totalAccepted, totalRejected, pending>>
          ELSE totalReceived' = totalReceived
       /\ \A traceId \in reading : AdmissionEnds(traceId) =>
               /\ Cardinality(reading') = Cardinality(reading) - 1
               /\ (EndsAccepted(traceId) \/ EndsRejected(traceId))
               /\ ~(EndsAccepted(traceId) /\ EndsRejected(traceId))
       /\ reading' = reading => UNCHANGED <<totalAccepted, totalRejected>>
      ]_vars

\* One admission was accepted, one was rejected for its body, and a third still
\* awaits its body.
C13_Witness ==
    /\ totalReceived = 3
    /\ totalAccepted = 1
    /\ totalRejected = 1
    /\ Cardinality(reading) = 1
    /\ \E letter \in AllLetters : StartsWith(letter.error, BodyReadFailed)

\* A dead-letter flush executes in this step: flushDeadLetters() removes a batch and
\* starts its write.
FlushDeadLettersStarts == \E write \in deadWrites' : write \notin deadWrites

\* The step that starts the write took the first min(length, batchSize) records of
\* the queue, in order, as the batch of the one new write, and left the others.
TookHead(queue, queueAfter, writes, writesAfter) ==
    LET b == Min(Len(queue), batchSize)
    IN  /\ b >= 1
        /\ queueAfter = SubSeq(queue, b + 1, Len(queue))
        /\ Cardinality(writesAfter \ writes) = 1
        /\ \A write \in writesAfter \ writes : write.batch = SubSeq(queue, 1, b)

\* A batch in flight is not altered: its write stays as it is, or ends in this step
\* and, when it succeeds, appends exactly the batch to its table.
BatchKept(writes, writesAfter, table, tableAfter) ==
    /\ \A write \in writes :
          \/ write \in writesAfter
          \/ /\ writesAfter = writes \ {write}
             /\ tableAfter = table \o write.batch \/ tableAfter = table
    /\ writesAfter \subseteq writes => (tableAfter = table \/ writesAfter # writes)

\* The Record Queue changes only by losing a prefix to a flush or by gaining one
\* record at its tail: the records left keep their relative order.
PendingOrderKept ==
    \/ pending' = pending
    \/ FlushQueueStarts /\ TookHead(pending, pending', flushWrites, flushWrites')
    \/ \E record \in Range(pending') : pending' = Append(pending, record)

\* The Dead-Letter Queue also takes a failed batch back at its front: the records
\* that were in the queue stay together and in order.
DeadLettersOrderKept ==
    \/ FlushDeadLettersStarts /\ TookHead(deadLetters, deadLetters', deadWrites, deadWrites')
    \/ /\ ~FlushDeadLettersStarts
       /\ \E front \in 0..(Len(deadLetters') - Len(deadLetters)) :
             SubSeq(deadLetters', front + 1, front + Len(deadLetters)) = deadLetters

\* The batch of the record flush in flight (there is at most one).
FlushBatch == IF flushWrites = {} THEN <<>> ELSE (CHOOSE write \in flushWrites : TRUE).batch

\* The accepted records from the first stored to the last queued: table requests,
\* then the batch in flight, then the Record Queue.
AcceptedOrder == requests \o FlushBatch \o pending

\* C14: an executed flush removes exactly the first min(length, batchSize) records
\* of its queue, in insertion order, in the one step that starts the write;
\* admissions that complete while the write is in flight append to the tail and
\* never alter the batch in flight, and the records left in the queue keep their
\* relative order.  Consequently, with no write failure, records reach table
\* requests in the order they were accepted: the sequence stored, in flight, queued
\* only ever grows at its tail.
C14_FlushTakesHeadInOrder ==
    [][/\ FlushQueueStarts => TookHead(pending, pending', flushWrites, flushWrites')
       /\ FlushDeadLettersStarts =>
              TookHead(deadLetters, deadLetters', deadWrites, deadWrites')
       /\ BatchKept(flushWrites, flushWrites', requests, requests')
       /\ BatchKept(deadWrites, deadWrites', dead_letters, dead_letters')
       /\ PendingOrderKept
       /\ DeadLettersOrderKept
       /\ totalDbErrors' = 0 =>
              \/ AcceptedOrder' = AcceptedOrder
              \/ /\ Len(pending') = Len(pending) + 1
                 /\ AcceptedOrder' = Append(AcceptedOrder, pending'[Len(pending')])
      ]_vars

\* No write has failed; the record accepted first is stored, the second is in
\* flight and a third was accepted behind it meanwhile; the first two were accepted
\* in the reverse of the order their admissions started in.
C14_Witness ==
    /\ totalDbErrors = 0
    /\ Len(requests) = 1
    /\ Len(pending) = 1
    /\ \E write \in flushWrites :
          /\ Len(write.batch) = 1
          /\ write.batch[1].trace_id < requests[1].trace_id
          /\ write.batch[1].trace_id < pending[1].trace_id

\* The failed batch is back at the front, whole and in its order, ahead of everything
\* the queue held when the write failed.
RequeuedAtFront(batch) ==
    /\ Len(deadLetters') = Len(batch) + Len(deadLetters)
    /\ SubSeq(deadLetters', Len(batch) + 1, Len(deadLetters')) = deadLetters
    /\ \A i \in 1..Len(batch) :
          /\ deadLetters'[i].trace_id = batch[i].trace_id
          /\ deadLetters'[i].payload = batch[i].payload

\* The previous error followed by the second failure reason.
ErrorWithSecondReason(letter) ==
    letter.error \o DeadLetterInsertFailed \o lastDeadFlushError'

\* A dead-letter flush fails in this step and its batch fits back.
FlushDeadLettersFailsAndFits(write) ==
    /\ FlushDeadLettersFails(write)
    /\ Len(deadLetters) + Len(write.batch) <= maxDeadQueueSize

WasRequeued(letter) ==
    \E i \in 1..Len(letter.error) : letter.error[i].t = DeadLetterInsertFailed[1].t

C16_ErrorAtMostLimit ==
    /\ \A i \in 1..Len(deadLetters) : StrLen(deadLetters[i].error) <= ErrLimit
    /\ \A write \in deadWrites :
          \A i \in 1..Len(write.batch) : StrLen(write.batch[i].error) <= ErrLimit
    /\ \A i \in 1..Len(dead_letters) : StrLen(dead_letters[i].error) <= ErrLimit

\* The records that have entered the Dead-Letter Queue, each counted once however
\* often it was requeued: those queued, being written, stored, or dropped on requeue
\* (a record dropped by enqueueDeadLetter at capacity never entered the queue).
EverDeadLettered ==
    TraceIds(deadLetters) \cup {letter.trace_id : letter \in InFlight(deadWrites)}
        \cup TraceIds(dead_letters)
        \cup {drop.letter.trace_id : drop \in {d \in dropLog : d.at = "requeue"}}

\* C17: totalDeadLetters is the number of records sent to the Dead-Letter Queue: in
\* every reachable state it equals the number of records enqueued there for the first
\* time, by an admission rejection or by a failed record flush (requeues are not
\* counted again, records dropped at capacity are not counted).
C17_TotalDeadLettersCountsEnqueues == totalDeadLetters = Cardinality(EverDeadLettered)

\* A record flush's write ends in this step, and succeeded: its batch is stored.
FlushQueueSucceeds(write) ==
    /\ write \in flushWrites
    /\ write \notin flushWrites'
    /\ requests' = requests \o write.batch

\* A record flush's write ends in this step, and failed: nothing is stored.
FlushQueueRejected(write) ==
    /\ write \in flushWrites
    /\ write \notin flushWrites'
    /\ requests' = requests

\* A dead-letter flush's write ends in this step, and succeeded.
FlushDeadLettersSucceeds(write) ==
    /\ write \in deadWrites
    /\ write \notin deadWrites'
    /\ dead_letters' = dead_letters \o write.batch

\* A dead-letter flush's write ends in this step, and failed.
FlushDeadLettersRejected(write) ==
    /\ write \in deadWrites
    /\ write \notin deadWrites'
    /\ dead_letters' = dead_letters

\* C18: for each queue's flush path, every executed flush whose batch write fails
\* increments totalDbErrors by exactly 1 (per batch, not per record) and sets that
\* path's last error to the failure message (the one its dead letters carry); every
\* executed flush whose write succeeds sets that path's last error to null and leaves
\* totalDbErrors unchanged; a flush of one queue never changes the other path's last
\* error, and no other step changes totalDbErrors or a last error.
C18_DbErrorsAndLastErrors ==
    [][/\ \A write \in flushWrites :
             /\ FlushQueueSucceeds(write) =>
                    /\ lastFlushError' = Null
                    /\ totalDbErrors' = totalDbErrors
                    /\ lastDeadFlushError' = lastDeadFlushError
             /\ FlushQueueRejected(write) =>
                    /\ totalDbErrors' = totalDbErrors + 1
                    /\ lastFlushError' \in DbErrors \cup LongDbErrors
                    /\ \A i \in 1..Len(write.batch) :
                           deadLetters'[Len(deadLetters) + i].error
                               = InsertFailed \o lastFlushError'
                    /\ lastDeadFlushError' = lastDeadFlushError
             /\ FlushQueueSucceeds(write) \/ FlushQueueRejected(write)
                    \/ write \in flushWrites'
       /\ \A write \in deadWrites :
             /\ FlushDeadLettersSucceeds(write) =>
                    /\ lastDeadFlushError' = Null
                    /\ totalDbErrors' = totalDbErrors
                    /\ lastFlushError' = lastFlushError
             /\ FlushDeadLettersRejected(write) =>
                    /\ totalDbErrors' = totalDbErrors + 1
                    /\ lastDeadFlushError' \in DbErrors \cup LongDbErrors
                    /\ lastFlushError' = lastFlushError
             /\ FlushDeadLettersSucceeds(write) \/ FlushDeadLettersRejected(write)
                    \/ write \in deadWrites'
       /\ (flushWrites \subseteq flushWrites' /\ deadWrites \subseteq deadWrites') =>
             UNCHANGED <<totalDbErrors, lastFlushError, lastDeadFlushError>>
      ]_vars

\* Both paths have failed once; a later record flush succeeded and cleared its own
\* last error, leaving the dead-letter path's error in place.
C18_Witness ==
    /\ totalDbErrors = 2
    /\ lastFlushError = Null
    /\ lastDeadFlushError # Null
    /\ Len(requests) >= 1
    /\ \E letter \in AllLetters : StartsWith(letter.error, InsertFailed)

\* The flush whose write ends in this step, successfully or not, writes the time into
\* its queue's last-flush timestamp and resets its flag; no other step changes either
\* timestamp.
FlushEndsStamped ==
    /\ (\E write \in flushWrites : write \notin flushWrites')
          => (lastFlushAt' = now /\ flushing' = FALSE)
    /\ (\E write \in deadWrites : write \notin deadWrites')
          => (lastDeadFlushAt' = now /\ deadFlushing' = FALSE)
    /\ flushWrites \subseteq flushWrites' => lastFlushAt' = lastFlushAt
    /\ deadWrites \subseteq deadWrites' => lastDeadFlushAt' = lastDeadFlushAt

\* Each flag is true exactly while a removed batch awaits its write.
FlagWhileInFlight ==
    /\ flushing <=> flushWrites # {}
    /\ deadFlushing <=> deadWrites # {}

\* C19: every flush that executes, whether its write succeeds or fails, ends by
\* updating its queue's last-flush timestamp and resetting its in-flight flag; the
\* flag is true exactly while a removed batch awaits its write; and when every store
\* write eventually returns, no in-flight flag stays true forever.
C19_FlushAlwaysEnds ==
    /\ [][FlushEndsStamped]_vars
    /\ []FlagWhileInFlight
    /\ (flushing ~> ~flushing)
    /\ (deadFlushing ~> ~deadFlushing)

\* A record flush failed at time 2 and reset its flag, after a dead-letter flush that
\* ended at time 1; a second dead-letter flush is in flight.
C19_Witness ==
    /\ lastFlushAt = 2
    /\ lastFlushError # Null
    /\ ~flushing
    /\ lastDeadFlushAt = 1
    /\ deadFlushing
    /\ deadWrites # {}

RECURSIVE SumCells(_)
\* The sum of the cells of a histogram.
SumCells(cells) == IF cells = <<>> THEN 0 ELSE Head(cells) + SumCells(Tail(cells))

\* The cell (counted from 1) that holds a value: the first bucket, the smallest index,
\* whose bound is at least the value, or the overflow cell after the last bucket.
CellOf(valueMs) ==
    IF valueMs > latencyBucketsMs[Len(latencyBucketsMs)]
    THEN Len(latencyBucketsMs) + 1
    ELSE CHOOSE i \in 1..Len(latencyBucketsMs) :
            /\ latencyBucketsMs[i] >= valueMs
            /\ \A j \in 1..(i - 1) : latencyBucketsMs[j] < valueMs

\* C20: recordLatency(v), for every v of a bounded set of non-negative integers and
\* in every state of the recorder, increments exactly one histogram cell, the first
\* bucket whose bound is >= v or the overflow cell when v exceeds the largest bound
\* (10000), adds v to the running sum and 1 to the count; so the cells always sum to
\* latencyCount (1 -> bucket 1, 3 -> bucket 5, 1000 -> bucket 1000, 50000 -> overflow).
C20_RecordLatencyOneCell ==
    /\ SumCells(latencyHistogram) = latencyCount
    /\ \A valueMs \in Latencies :
          /\ recorded(valueMs).latencyHistogram =
                 [latencyHistogram EXCEPT ![CellOf(valueMs)] = @ + 1]
          /\ recorded(valueMs).latencySumMs = latencySumMs + valueMs
          /\ recorded(valueMs).latencyCount = latencyCount + 1
    /\ latencyBucketsMs[CellOf(1)] = 1
    /\ latencyBucketsMs[CellOf(3)] = 5
    /\ latencyBucketsMs[CellOf(1000)] = 1000
    /\ CellOf(50000) = Len(latencyHistogram)

\* Three admissions took 1, 3 and 50000 ms: one sample in bucket 1, one in bucket 5
\* and one in the overflow cell.
C20_Witness ==
    /\ latencyCount = 3
    /\ latencySumMs = 50004
    /\ latencyHistogram[1] = 1
    /\ latencyHistogram[3] = 1
    /\ latencyHistogram[Len(latencyHistogram)] = 1

\* The count of the first i cells of a histogram.
CumulativeCount(histogram, i) == SumCells(SubSeq(histogram, 1, i))

\* Bucket i's cumulative count reaches the target share of the samples.
Reaches(histogram, count, targetPercentile, i) ==
    CumulativeCount(histogram, i) * 100 >= targetPercentile * count

\* The result is the smallest bucket bound whose cumulative count reaches the target.
SmallestReachingBound(histogram, count, targetPercentile, result) ==
    \E i \in 1..Len(latencyBucketsMs) :
        /\ result = latencyBucketsMs[i]
        /\ Reaches(histogram, count, targetPercentile, i)
        /\ \A j \in 1..(i - 1) : ~Reaches(histogram, count, targetPercentile, j)

\* percentile as claimed, on one histogram: 0 without samples, and otherwise the
\* smallest bucket bound whose cumulative count is >= p * totalCount.
PercentileAsClaimed(histogram, count, targetPercentile) ==
    IF count = 0
    THEN percentileOf(histogram, count, targetPercentile) = 0
    ELSE SmallestReachingBound(histogram, count, targetPercentile,
                               percentileOf(histogram, count, targetPercentile))

\* percentile as amended, on one histogram: when no bucket's cumulative count reaches
\* the target (the percentile lies in the overflow cell) the result is the largest
\* bound.
PercentileOrLargestBound(histogram, count, targetPercentile) ==
    IF count = 0
    THEN percentileOf(histogram, count, targetPercentile) = 0
    ELSE IF \E i \in 1..Len(latencyBucketsMs) : Reaches(histogram, count, targetPercentile, i)
         THEN SmallestReachingBound(histogram, count, targetPercentile,
                                    percentileOf(histogram, count, targetPercentile))
         ELSE percentileOf(histogram, count, targetPercentile)
                  = latencyBucketsMs[Len(latencyBucketsMs)]

\* The samples recorded so far are 1, 3 and 1000 ms.
Samples1And3And1000 ==
    /\ latencyCount = 3
    /\ latencyHistogram[CellOf(1)] = 1
    /\ latencyHistogram[CellOf(3)] = 1
    /\ latencyHistogram[CellOf(1000)] = 1

\* With a fourth sample of 50000 ms, percentile(0.5) is 5, the bound of the second
\* smallest occupied bucket.
ExampleP50Is5 ==
    Samples1And3And1000 =>
        percentileOf(recorded(50000).latencyHistogram, recorded(50000).latencyCount, 50) = 5

\* C21, as claimed: percentile(p) returns 0 when no samples are recorded; otherwise
\* it returns the smallest bucket bound whose cumulative count (up to and including
\* that bucket) is >= p * totalCount, for every histogram over bounded counts (every
\* reachable one, and each with one more sample) and p in {0.5, 0.95, 0.99}; for
\* samples [1, 3, 1000, 50000] percentile(0.5) is 5.
C21_PercentileSmallestBound ==
    /\ \A targetPercentile \in Percentiles :
          /\ PercentileAsClaimed(latencyHistogram, latencyCount, targetPercentile)
          /\ \A valueMs \in Latencies :
                PercentileAsClaimed(recorded(valueMs).latencyHistogram,
                                    recorded(valueMs).latencyCount, targetPercentile)
    /\ ExampleP50Is5

\* C21, amended: ... otherwise it returns the smallest bucket bound whose cumulative
\* count is >= p * totalCount, or the largest bound (10000) when no bucket's
\* cumulative count reaches it because the percentile lies in the overflow cell.
C21_PercentileOrLargestBound ==
    /\ \A targetPercentile \in Percentiles :
          /\ PercentileOrLargestBound(latencyHistogram, latencyCount, targetPercentile)
          /\ percentile(targetPercentile)
                 = percentileOf(latencyHistogram, latencyCount, targetPercentile)
          /\ \A valueMs \in Latencies :
                PercentileOrLargestBound(recorded(valueMs).latencyHistogram,
                                         recorded(valueMs).latencyCount, targetPercentile)
    /\ ExampleP50Is5

\* Three admissions took 1, 3 and 1000 ms: p50 is 5 now (2 of 3 samples within
\* bucket 5) and stays 5 with a fourth sample of 50000 ms, while p99 is 1000 now and
\* would be the largest bound then.
C21_Witness ==
    /\ Samples1And3And1000
    /\ percentile(50) = 5
    /\ percentile(99) = 1000
    /\ percentileOf(recorded(50000).latencyHistogram, recorded(50000).latencyCount, 99)
          = latencyBucketsMs[Len(latencyBucketsMs)]

\* The admission ends in this step without its record entering the Record Queue: it
\* is rejected.
EndsNotAccepted(traceId) ==
    /\ AdmissionEnds(traceId)
    /\ traceId \notin TraceIds(pending')

\* C22: a rejected admission (overflow or bad body) that finds the Dead-Letter Queue
\* at capacity drops the record entirely: it is enqueued in neither queue, the
\* Dead-Letter Queue and totalDeadLetters are unchanged, while totalRejected is still
\* incremented and the caller still receives its outcome, 503 (only with the Record
\* Queue at capacity) or 400.
C22_RejectedAtCapacityDropped ==
    [][\A traceId \in reading :
          (EndsNotAccepted(traceId) /\ Len(deadLetters) >= maxDeadQueueSize) =>
              /\ pending' = pending
              /\ deadLetters' = deadLetters
              /\ totalDeadLetters' = totalDeadLetters
              /\ traceId \notin TraceIds(pending') \cup TraceIds(deadLetters')
              /\ totalRejected' = totalRejected + 1
              /\ totalAccepted' = totalAccepted
              /\ \E response \in responses' \ responses :
                    /\ responses' = responses \cup {response}
                    /\ response.trace_id = traceId
                    /\ response.status \in {503, 400}
                    /\ response.status = 503 => Len(pending) >= maxQueueSize
      ]_vars

\* An admission found both queues at capacity: it was answered 503 and counted as
\* rejected, its record is in neither queue, and the Dead-Letter Queue still holds
\* exactly the letter that filled it, the only one ever counted.
C22_Witness ==
    /\ \E drop \in dropLog :
          /\ drop.at = "enqueue"
          /\ drop.letter.error = QueueOverflow
          /\ [trace_id |-> drop.letter.trace_id, status |-> 503] \in responses
          /\ drop.letter.trace_id \notin TraceIds(pending) \cup TraceIds(deadLetters)
    /\ totalRejected = 2
    /\ totalDeadLetters = 1
    /\ Len(deadLetters) = maxDeadQueueSize

\* A step of an admission: a request arrives, or a body read ends.
AdmissionStep == totalReceived' # totalReceived \/ reading' # reading

\* A store write fails in this step, of either flush.
WriteFails == totalDbErrors' # totalDbErrors

\* Both queues are empty and neither flush is in flight.
Drained ==
    /\ pending = <<>>
    /\ deadLetters = <<>>
    /\ ~flushing
    /\ ~deadFlushing

\* C23: if admissions stop and from some point on every store write succeeds, then
\* under fair firing of the two flush timers both the Record Queue and the
\* Dead-Letter Queue eventually become empty and stay empty, with both in-flight
\* flags false.
C23_EventuallyDrained ==
    <>[][~AdmissionStep /\ ~WriteFails]_vars => <>[]Drained

\* Everything is drained after the worst the bounds allow: every request was
\* received and answered, every failure the store can have happened, and both
\* tables hold rows.
C23_Witness ==
    /\ Drained
    /\ flushWrites = {} /\ deadWrites = {}
    /\ reading = {}
    /\ totalReceived = MaxRequests
    /\ totalDbErrors = MaxDbErrors
    /\ Len(requests) > 0
    /\ Len(dead_letters) > 0

====
